---- MODULE Spec2Model ----
(***************************************************************************)
(* A state-machine model of src/main.rs of the oscilloscope program: the   *)
(* start-up sequence (channel check, mcp3008 parameters, statistics        *)
(* accumulators, session construction) and the polling loop that steps the *)
(* mcp3008 session, feeds a surfaced voltage into the ac_driver session,   *)
(* accumulates the estimated values and dumps their averages.              *)
(*                                                                         *)
(* The crates rpi_lfa (ac_driver) and rpi_lfa_rppal (mcp3008) are outside  *)
(* the modelled source: what their calls return is an input of the step,   *)
(* drawn from every variant main.rs matches on.  f64 quantities are exact  *)
(* numbers on a small grid (frequencies in tenths of a hertz); a quotient  *)
(* is kept as a reduced fraction, so no rounding is modelled.              *)
(***************************************************************************)
EXTENDS Integers, Sequences, FiniteSets, Bags, TLC

\* ------------------------------------------------------------------ bounds
\* Largest value of --mcp3008-carrier-channel that is tried (usize, from 0).
MaxChannelInput == 9
\* Largest value of --dump-stats-delay that is tried.
MaxDumpDelay == 2
\* The monotonic clock runs from 0 to MaxTime and then stands still.
MaxTime == 2
\* Most time that passes during one step.
MaxTick == 1
\* Most estimates accumulated between two dumps.
MaxSamples == 3

\* --------------------------------------------------------------- constants
\* Last channel of the mcp3008 (Ch0 .. Ch7).
LastChannel == 7

\* Option<T>: None is the empty tuple, Some(x) the tuple of x.
None == << >>

Some(x) == << x >>

Unwrap(o) == o[1]

Channels == 0 .. LastChannel

\* usize values given as the carrier channel.
ChannelInputs == 0 .. MaxChannelInput

\* possible_values of --mcp3008-voltage-drain.
CliMcp3008Vdd == {"Positive3v3", "Positive5v"}

\* Option<f64> values given as --mcp3008-voltage-reference: absent, zero volts
\* and five volts.
VoltageRefInputs == {None, Some(0), Some(5)}

DumpDelayInputs == 0 .. MaxDumpDelay

\* Voltages a finished conversion reports.
Voltages == {0, 3}

\* Values an estimated ac_driver session holds: frequency in tenths of a hertz,
\* amplitude maximum and minimum in volts.
Estimates ==
    { [frequency |-> 599, max |-> 3, min |-> 1],
      [frequency |-> 600, max |-> 3, min |-> 0],
      [frequency |-> 601, max |-> 2, min |-> 1] }

\* The command lines tried.  The channel is matched on its own and the two
\* voltage options are only copied into the parameters, so the channel is
\* varied over all its values with the other options fixed, the voltage
\* options over all their combinations at a channel in range and at one out of
\* range, and the delay over all its values.
CliInputs ==
    LET args(c, vd, vr, ms) ==
            [carrier_channel |-> c, voltage_drain |-> vd, voltage_ref |-> vr,
             dump_stats_delay |-> ms]
    IN  { args(c, "Positive3v3", None, MaxDumpDelay) : c \in ChannelInputs }
        \cup { args(c, vd, vr, MaxDumpDelay) :
                  c \in {0, LastChannel + 1}, vd \in CliMcp3008Vdd,
                  vr \in VoltageRefInputs }
        \cup { args(LastChannel, "Positive5v", None, ms) : ms \in DumpDelayInputs }

VARIABLES
    carrier_channel,      \* cli_args.mcp3008.carrier_channel
    voltage_drain,        \* cli_args.mcp3008.voltage_drain
    voltage_ref,          \* cli_args.mcp3008.voltage_ref
    dump_stats_delay,     \* cli_args.dump_stats_delay
    pc,                   \* "start", "loop", or "exit" once main has returned
    result,               \* what main returned: None while running, else the Err
    mcp3008_channel,
    mcp3008_params,
    dump_delay,
    ac_last_dump,
    ac_samples,
    ac_avg_hz,
    ac_avg_hi,
    ac_avg_lo,
    ac_driver_session,
    mcp3008_session,
    clock,                \* the monotonic clock Instant::now() reads
    io,                   \* the mcp3008 call of the latest step and its answer
    channel_voltage_read, \* the local of the latest iteration
    ac_call,              \* the ac_driver call of the latest iteration
    ac_values_read,       \* the local of the latest iteration
    recorded,             \* the values added to the accumulators in the latest iteration
    log,                  \* what the latest iteration's dump wrote
    window                \* the bag of values read since the latest dump

vars ==
    << carrier_channel, voltage_drain, voltage_ref, dump_stats_delay, pc, result,
       mcp3008_channel, mcp3008_params, dump_delay, ac_last_dump, ac_samples,
       ac_avg_hz, ac_avg_hi, ac_avg_lo, ac_driver_session, mcp3008_session,
       clock, io, channel_voltage_read, ac_call, ac_values_read, recorded, log,
       window >>

cli_args == << carrier_channel, voltage_drain, voltage_ref, dump_stats_delay >>

stats == << ac_samples, ac_avg_hz, ac_avg_hi, ac_avg_lo >>

\* No mcp3008 call, no ac_driver call.
NoIo == [op |-> "none", res |-> "none", channel |-> None, value |-> None]

NoCall ==
    [state |-> "none", op |-> "none", now |-> None, voltage |-> None,
     half_cycle |-> FALSE]

\* A session variable before its let, and after a call has consumed the session
\* and returned an error.
NoSession == [state |-> "none", channel |-> None]

Init ==
    /\ \E args \in CliInputs :
           /\ carrier_channel = args.carrier_channel
           /\ voltage_drain = args.voltage_drain
           /\ voltage_ref = args.voltage_ref
           /\ dump_stats_delay = args.dump_stats_delay
    /\ pc = "start"
    /\ result = None
    /\ mcp3008_channel = None
    /\ mcp3008_params = None
    /\ dump_delay = 0
    /\ ac_last_dump = 0
    /\ ac_samples = 0
    /\ ac_avg_hz = 0
    /\ ac_avg_hi = 0
    /\ ac_avg_lo = 0
    /\ ac_driver_session = [state |-> "none"]
    /\ mcp3008_session = NoSession
    /\ clock = 0
    /\ io = NoIo
    /\ channel_voltage_read = None
    /\ ac_call = NoCall
    /\ ac_values_read = None
    /\ recorded = None
    /\ log = None
    /\ window = EmptyBag

\* ------------------------------------------------------------ start-up
\* The match on cli_args.mcp3008.carrier_channel: Ok with the channel for the
\* arms 0 .. 7, the Err of the catch-all arm otherwise.
\* ChannelMatch with the range check off by one: channel 8 passes.
ChannelMatchOffByOne(provided) ==
    IF provided \in 0 .. LastChannel + 1
    THEN [ok |-> TRUE, channel |-> Some(provided), err |-> None]
    ELSE [ok |-> FALSE, channel |-> None,
          err |-> Some([tag |-> "ChannelIsNotInRangeFrom0To7",
                        provided |-> Some(provided)])]

ChannelMatch(provided) ==
    IF provided \in Channels
    THEN [ok |-> TRUE, channel |-> Some(provided), err |-> None]
    ELSE [ok |-> FALSE, channel |-> None,
          err |-> Some([tag |-> "ChannelIsNotInRangeFrom0To7",
                        provided |-> Some(provided)])]

\* Mcp3008Params taking the reference from the drain whenever a drain is given.
Mcp3008ParamsDrainOnly(vdd, vref) ==
    [ voltage_drain |-> vdd,
      voltage_ref |-> [tag |-> "EqualToVdd", voltage |-> None] ]

\* mcp3008::Params built from the two voltage options; no combination is refused.
Mcp3008Params(vdd, vref) ==
    [ voltage_drain |-> vdd,
      voltage_ref |-> IF vref = None
                      THEN [tag |-> "EqualToVdd", voltage |-> None]
                      ELSE [tag |-> "Other", voltage |-> Some(Unwrap(vref))] ]

\* Duration::from_millis(dump_stats_delay as u64)
DurationFromMillis(ms) == ms

\* The session ac_driver::Session::new() returns.
AcDriverSessionNew == [state |-> "Initializing"]

\* The session a successful mcp3008::Session::new holds: the hardware is not
\* yet confirmed responsive.
Mcp3008SessionInitial == [state |-> "Initializing", channel |-> None]

\* What mcp3008::Session::new(&params) can return: a session, or an error.
Mcp3008SessionNew(params) ==
    { [ok |-> TRUE, session |-> Mcp3008SessionInitial],
      [ok |-> FALSE, session |-> NoSession] }

ErrMcp3008 == Some([tag |-> "Mcp3008", provided |-> None])

\* mcp3008::Session::new was not called.
NotCreated == [ok |-> FALSE, session |-> NoSession]

\* main up to the loop, given what mcp3008::Session::new returns.
Main(created) ==
    /\ pc = "start"
    /\ LET ch == ChannelMatch(carrier_channel) IN
       IF ~ch.ok
       THEN /\ created = NotCreated
            /\ pc' = "exit"
            /\ result' = ch.err
            /\ UNCHANGED << mcp3008_channel, mcp3008_params, dump_delay, ac_last_dump,
                            ac_samples, ac_avg_hz, ac_avg_hi, ac_avg_lo,
                            ac_driver_session, mcp3008_session, io >>
       ELSE /\ created \in Mcp3008SessionNew(Mcp3008Params(voltage_drain, voltage_ref))
            /\ mcp3008_channel' = ch.channel
            /\ mcp3008_params' = Some(Mcp3008Params(voltage_drain, voltage_ref))
            /\ dump_delay' = DurationFromMillis(dump_stats_delay)
            /\ ac_last_dump' = clock
            /\ ac_samples' = 0
            /\ ac_avg_hz' = 0
            /\ ac_avg_hi' = 0
            /\ ac_avg_lo' = 0
            /\ ac_driver_session' = AcDriverSessionNew
            /\ io' = [op |-> "new", res |-> IF created.ok THEN "Ok" ELSE "Err",
                      channel |-> None, value |-> None]
            /\ mcp3008_session' = created.session
            /\ pc' = IF created.ok THEN "loop" ELSE "exit"
            /\ result' = IF created.ok THEN None ELSE ErrMcp3008
    /\ UNCHANGED << cli_args, clock, channel_voltage_read, ac_call, ac_values_read,
                    recorded, log, window >>

\* ------------------------------------------------------- the mcp3008 step
\* Mcp3008Call polling a ready session: the request is left out.
Mcp3008CallPollsReady(session) ==
    CASE session.state = "Initializing" -> "probe"
      [] session.state = "Ready" -> "poll"
      [] session.state = "Probing" -> "poll"

\* The call the arm of `match mcp3008_session` makes, by the state of the
\* session.
Mcp3008Call(session) ==
    CASE session.state = "Initializing" -> "probe"
      [] session.state = "Ready" -> "probe_channel"
      [] session.state = "Probing" -> "poll"

\* Each answer the call made on the session can give.
Mcp3008Answers(session, channel) ==
    CASE Mcp3008Call(session) = "probe" ->
           { [op |-> "probe", res |-> r, channel |-> None, value |-> None] :
               r \in {"Idle", "Ready", "Err"} }
      [] Mcp3008Call(session) = "probe_channel" ->
           { [op |-> "probe_channel", res |-> "none", channel |-> channel,
              value |-> None] }
      [] Mcp3008Call(session) = "poll" ->
           { [op |-> "poll", res |-> r, channel |-> None, value |-> None] :
               r \in {"Idle", "Err"} }
           \cup { [op |-> "poll", res |-> "Done", channel |-> Some(c), value |-> Some(v)] :
                    c \in Channels, v \in Voltages }

\* StepMcp3008 without the `if channel == mcp3008_channel` guard: the value of
\* any Done is surfaced.
StepMcp3008Unguarded(session, channel, answer) ==
    CASE answer.res = "Err" ->
           [err |-> TRUE, session |-> NoSession, read |-> None]
      [] answer.op = "probe" /\ answer.res = "Idle" ->
           [err |-> FALSE, session |-> session, read |-> None]
      [] answer.op = "probe" /\ answer.res = "Ready" ->
           [err |-> FALSE, session |-> [state |-> "Ready", channel |-> None], read |-> None]
      [] answer.op = "probe_channel" ->
           [err |-> FALSE, session |-> [state |-> "Probing", channel |-> channel],
            read |-> None]
      [] answer.op = "poll" /\ answer.res = "Idle" ->
           [err |-> FALSE, session |-> session, read |-> None]
      [] answer.op = "poll" /\ answer.res = "Done" ->
           [err |-> FALSE, session |-> [state |-> "Ready", channel |-> None],
            read |-> answer.value]

\* StepMcp3008 with the two Done arms swapped over: the value for the requested
\* channel is dropped.
StepMcp3008DropsReading(session, channel, answer) ==
    CASE answer.res = "Err" ->
           [err |-> TRUE, session |-> NoSession, read |-> None]
      [] answer.op = "probe" /\ answer.res = "Idle" ->
           [err |-> FALSE, session |-> session, read |-> None]
      [] answer.op = "probe" /\ answer.res = "Ready" ->
           [err |-> FALSE, session |-> [state |-> "Ready", channel |-> None], read |-> None]
      [] answer.op = "probe_channel" ->
           [err |-> FALSE, session |-> [state |-> "Probing", channel |-> channel],
            read |-> None]
      [] answer.op = "poll" /\ answer.res = "Idle" ->
           [err |-> FALSE, session |-> session, read |-> None]
      [] answer.op = "poll" /\ answer.res = "Done" /\ answer.channel # channel ->
           [err |-> FALSE, session |-> [state |-> "Ready", channel |-> None],
            read |-> answer.value]
      [] answer.op = "poll" /\ answer.res = "Done" /\ answer.channel = channel ->
           [err |-> FALSE, session |-> [state |-> "Ready", channel |-> None], read |-> None]

\* StepMcp3008 with an error answer taken as not ready yet: the call is made
\* again in the next iteration.
StepMcp3008Retries(session, channel, answer) ==
    CASE answer.res = "Err" ->
           [err |-> FALSE, session |-> session, read |-> None]
      [] answer.op = "probe" /\ answer.res = "Idle" ->
           [err |-> FALSE, session |-> session, read |-> None]
      [] answer.op = "probe" /\ answer.res = "Ready" ->
           [err |-> FALSE, session |-> [state |-> "Ready", channel |-> None], read |-> None]
      [] answer.op = "probe_channel" ->
           [err |-> FALSE, session |-> [state |-> "Probing", channel |-> channel],
            read |-> None]
      [] answer.op = "poll" /\ answer.res = "Idle" ->
           [err |-> FALSE, session |-> session, read |-> None]
      [] answer.op = "poll" /\ answer.res = "Done" /\ answer.channel = channel ->
           [err |-> FALSE, session |-> [state |-> "Ready", channel |-> None],
            read |-> answer.value]
      [] answer.op = "poll" /\ answer.res = "Done" /\ answer.channel # channel ->
           [err |-> FALSE, session |-> [state |-> "Ready", channel |-> None], read |-> None]

\* StepMcp3008 giving up a conversion that is still pending: the session goes
\* back to ready and the request is made again.
StepMcp3008IdleRearms(session, channel, answer) ==
    CASE answer.res = "Err" ->
           [err |-> TRUE, session |-> NoSession, read |-> None]
      [] answer.op = "probe" /\ answer.res = "Idle" ->
           [err |-> FALSE, session |-> session, read |-> None]
      [] answer.op = "probe" /\ answer.res = "Ready" ->
           [err |-> FALSE, session |-> [state |-> "Ready", channel |-> None], read |-> None]
      [] answer.op = "probe_channel" ->
           [err |-> FALSE, session |-> [state |-> "Probing", channel |-> channel],
            read |-> None]
      [] answer.op = "poll" /\ answer.res = "Idle" ->
           [err |-> FALSE, session |-> [state |-> "Ready", channel |-> None], read |-> None]
      [] answer.op = "poll" /\ answer.res = "Done" /\ answer.channel = channel ->
           [err |-> FALSE, session |-> [state |-> "Ready", channel |-> None],
            read |-> answer.value]
      [] answer.op = "poll" /\ answer.res = "Done" /\ answer.channel # channel ->
           [err |-> FALSE, session |-> [state |-> "Ready", channel |-> None], read |-> None]

\* StepMcp3008 starting the handshake over after a Done for another channel.
StepMcp3008Reinitializes(session, channel, answer) ==
    CASE answer.res = "Err" ->
           [err |-> TRUE, session |-> NoSession, read |-> None]
      [] answer.op = "probe" /\ answer.res = "Idle" ->
           [err |-> FALSE, session |-> session, read |-> None]
      [] answer.op = "probe" /\ answer.res = "Ready" ->
           [err |-> FALSE, session |-> [state |-> "Ready", channel |-> None], read |-> None]
      [] answer.op = "probe_channel" ->
           [err |-> FALSE, session |-> [state |-> "Probing", channel |-> channel],
            read |-> None]
      [] answer.op = "poll" /\ answer.res = "Idle" ->
           [err |-> FALSE, session |-> session, read |-> None]
      [] answer.op = "poll" /\ answer.res = "Done" /\ answer.channel = channel ->
           [err |-> FALSE, session |-> [state |-> "Ready", channel |-> None],
            read |-> answer.value]
      [] answer.op = "poll" /\ answer.res = "Done" /\ answer.channel # channel ->
           [err |-> FALSE, session |-> [state |-> "Initializing", channel |-> None],
            read |-> None]

\* StepMcp3008 requesting Ch0 whatever the configured channel is.
StepMcp3008HardCodedChannel(session, channel, answer) ==
    CASE answer.res = "Err" ->
           [err |-> TRUE, session |-> NoSession, read |-> None]
      [] answer.op = "probe" /\ answer.res = "Idle" ->
           [err |-> FALSE, session |-> session, read |-> None]
      [] answer.op = "probe" /\ answer.res = "Ready" ->
           [err |-> FALSE, session |-> [state |-> "Ready", channel |-> None], read |-> None]
      [] answer.op = "probe_channel" ->
           [err |-> FALSE, session |-> [state |-> "Probing", channel |-> Some(0)],
            read |-> None]
      [] answer.op = "poll" /\ answer.res = "Idle" ->
           [err |-> FALSE, session |-> session, read |-> None]
      [] answer.op = "poll" /\ answer.res = "Done" /\ answer.channel = channel ->
           [err |-> FALSE, session |-> [state |-> "Ready", channel |-> None],
            read |-> answer.value]
      [] answer.op = "poll" /\ answer.res = "Done" /\ answer.channel # channel ->
           [err |-> FALSE, session |-> [state |-> "Ready", channel |-> None], read |-> None]

\* The match on mcp3008_session: the session after the step, the voltage
\* surfaced (channel_voltage_read) and whether the ? returned an error.
StepMcp3008(session, channel, answer) ==
    CASE answer.res = "Err" ->
           [err |-> TRUE, session |-> NoSession, read |-> None]
      [] answer.op = "probe" /\ answer.res = "Idle" ->
           [err |-> FALSE, session |-> session, read |-> None]
      [] answer.op = "probe" /\ answer.res = "Ready" ->
           [err |-> FALSE, session |-> [state |-> "Ready", channel |-> None], read |-> None]
      [] answer.op = "probe_channel" ->
           [err |-> FALSE, session |-> [state |-> "Probing", channel |-> channel],
            read |-> None]
      [] answer.op = "poll" /\ answer.res = "Idle" ->
           [err |-> FALSE, session |-> session, read |-> None]
      [] answer.op = "poll" /\ answer.res = "Done" /\ answer.channel = channel ->
           [err |-> FALSE, session |-> [state |-> "Ready", channel |-> None],
            read |-> answer.value]
      [] answer.op = "poll" /\ answer.res = "Done" /\ answer.channel # channel ->
           [err |-> FALSE, session |-> [state |-> "Ready", channel |-> None], read |-> None]

\* ------------------------------------------------------ the ac_driver step
\* What voltage_read can return, by the state of the session: an initializing
\* session stays idle or detects the carrier; an estimated one stays estimated
\* or loses the carrier.  `values` is what values() of the estimated session
\* that comes back gives.  `half_cycle` says whether the sample completed a
\* half-cycle of the carrier: no variant of either answer tells, so each answer
\* comes with both.
AcDriverAnswers(session) ==
    IF session.state = "Initializing"
    THEN { [op |-> "Idle", values |-> None, half_cycle |-> h] : h \in BOOLEAN }
         \cup { [op |-> "CarrierDetected", values |-> Some(e), half_cycle |-> h] :
                  e \in Estimates, h \in BOOLEAN }
    ELSE { [op |-> "Idle", values |-> Some(e), half_cycle |-> h] :
              e \in Estimates, h \in BOOLEAN }
         \cup { [op |-> "CarrierLost", values |-> None, half_cycle |-> h] :
                  h \in BOOLEAN }

\* StepAcDriver reading the values of a session that stays estimated only when
\* the sample completed a half-cycle.
StepAcDriverOnHalfCycle(session, answer) ==
    CASE session.state = "Initializing" /\ answer.op = "Idle" ->
           [session |-> [state |-> "Initializing"], read |-> None]
      [] session.state = "Initializing" /\ answer.op = "CarrierDetected" ->
           [session |-> [state |-> "Estimated"], read |-> answer.values]
      [] session.state = "Estimated" /\ answer.op = "Idle" ->
           [session |-> [state |-> "Estimated"],
            read |-> IF answer.half_cycle THEN answer.values ELSE None]
      [] session.state = "Estimated" /\ answer.op = "CarrierLost" ->
           [session |-> [state |-> "Initializing"], read |-> None]

\* StepAcDriver without the values of a session that stays estimated: only the
\* first detection is read.
StepAcDriverFirstOnly(session, answer) ==
    CASE session.state = "Initializing" /\ answer.op = "Idle" ->
           [session |-> [state |-> "Initializing"], read |-> None]
      [] session.state = "Initializing" /\ answer.op = "CarrierDetected" ->
           [session |-> [state |-> "Estimated"], read |-> answer.values]
      [] session.state = "Estimated" /\ answer.op = "Idle" ->
           [session |-> [state |-> "Estimated"], read |-> None]
      [] session.state = "Estimated" /\ answer.op = "CarrierLost" ->
           [session |-> [state |-> "Initializing"], read |-> None]

\* The match on ac_driver_session: the session after voltage_read and the
\* values read from it (ac_values_read).
StepAcDriver(session, answer) ==
    CASE session.state = "Initializing" /\ answer.op = "Idle" ->
           [session |-> [state |-> "Initializing"], read |-> None]
      [] session.state = "Initializing" /\ answer.op = "CarrierDetected" ->
           [session |-> [state |-> "Estimated"], read |-> answer.values]
      [] session.state = "Estimated" /\ answer.op = "Idle" ->
           [session |-> [state |-> "Estimated"], read |-> answer.values]
      [] session.state = "Estimated" /\ answer.op = "CarrierLost" ->
           [session |-> [state |-> "Initializing"], read |-> None]

\* ---------------------------------------------------------- the statistics
Stats(samples, hz, hi, lo) == [samples |-> samples, hz |-> hz, hi |-> hi, lo |-> lo]

\* Accumulate with the two amplitudes taken for each other.
AccumulateSwapped(st, values_read) ==
    IF values_read # None
    THEN Stats(st.samples + 1, st.hz + Unwrap(values_read).frequency,
               st.hi + Unwrap(values_read).min, st.lo + Unwrap(values_read).max)
    ELSE st

\* if let Some(ac_values) = ac_values_read { ac_samples += 1; ... }
Accumulate(st, values_read) ==
    IF values_read # None
    THEN Stats(st.samples + 1, st.hz + Unwrap(values_read).frequency,
               st.hi + Unwrap(values_read).max, st.lo + Unwrap(values_read).min)
    ELSE st

RECURSIVE Gcd(_, _)
Gcd(a, b) == IF b = 0 THEN a ELSE Gcd(b, a % b)

\* sum / samples as f64, kept exact: the quotient as a fraction in lowest terms.
Quotient(sum, samples) ==
    LET g == Gcd(sum, samples) IN [num |-> sum \div g, den |-> samples \div g]

\* DumpLines dividing by one sample too many.
DumpLinesOffByOne(st) ==
    IF st.samples = 0
    THEN [kind |-> "no samples collected yet", hz |-> None, hi |-> None, lo |-> None]
    ELSE [kind |-> "avg", hz |-> Some(Quotient(st.hz, st.samples + 1)),
          hi |-> Some(Quotient(st.hi, st.samples + 1)),
          lo |-> Some(Quotient(st.lo, st.samples + 1))]

\* What the dump logs for the accumulators.
DumpLines(st) ==
    IF st.samples = 0
    THEN [kind |-> "no samples collected yet", hz |-> None, hi |-> None, lo |-> None]
    ELSE [kind |-> "avg", hz |-> Some(Quotient(st.hz, st.samples)),
          hi |-> Some(Quotient(st.hi, st.samples)),
          lo |-> Some(Quotient(st.lo, st.samples))]

\* Dump leaving ac_avg_lo as it is.
DumpPartialReset(st, last_dump, now, delay) ==
    IF now - last_dump >= delay
    THEN [st |-> Stats(0, 0, 0, st.lo), last_dump |-> now, log |-> Some(DumpLines(st))]
    ELSE [st |-> st, last_dump |-> last_dump, log |-> None]

\* Dump one unit of time before the delay has passed.
DumpEarly(st, last_dump, now, delay) ==
    IF now - last_dump + 1 >= delay
    THEN [st |-> Stats(0, 0, 0, 0), last_dump |-> now, log |-> Some(DumpLines(st))]
    ELSE [st |-> st, last_dump |-> last_dump, log |-> None]

\* if now.duration_since(ac_last_dump) >= dump_delay { ... }: the accumulators,
\* ac_last_dump and the log lines after it.
Dump(st, last_dump, now, delay) ==
    IF now - last_dump >= delay
    THEN [st |-> Stats(0, 0, 0, 0), last_dump |-> now, log |-> Some(DumpLines(st))]
    ELSE [st |-> st, last_dump |-> last_dump, log |-> None]

\* ------------------------------------------------------------- the loop
\* What the accumulators gained between two values of them: the values of one
\* estimate, or nothing.
Gained(before, after) ==
    IF after.samples = before.samples
    THEN None
    ELSE Some([frequency |-> after.hz - before.hz, max |-> after.hi - before.hi,
               min |-> after.lo - before.lo])

\* Consume with the dump test ahead of the accumulation: the values read in
\* the iteration of a dump open the next window.
ConsumeDumpFirst(voltage, ac_answer, now) ==
    LET before == Stats(ac_samples, ac_avg_hz, ac_avg_hi, ac_avg_lo)
        ac == StepAcDriver(ac_driver_session, ac_answer)
        dump == Dump(before, ac_last_dump, now, dump_delay)
        st == Accumulate(dump.st, ac.read)
    IN  /\ ac_call' = [state |-> ac_driver_session.state, op |-> ac_answer.op,
                       now |-> Some(now), voltage |-> Some(voltage),
                       half_cycle |-> ac_answer.half_cycle]
        /\ ac_values_read' = ac.read
        /\ ac_driver_session' = ac.session
        /\ st.samples <= MaxSamples
        /\ recorded' = Gained(dump.st, st)
        /\ ac_samples' = st.samples
        /\ ac_avg_hz' = st.hz
        /\ ac_avg_hi' = st.hi
        /\ ac_avg_lo' = st.lo
        /\ ac_last_dump' = dump.last_dump
        /\ log' = dump.log
        /\ window' = IF ac.read # None
                     THEN (IF dump.log # None THEN EmptyBag ELSE window)
                          (+) SetToBag({Unwrap(ac.read)})
                     ELSE IF dump.log # None THEN EmptyBag ELSE window

\* The body of `if let Some(voltage) = channel_voltage_read`: the ac_driver
\* step at now = Instant::now(), the accumulation and the dump.
Consume(voltage, ac_answer, now) ==
    LET before == Stats(ac_samples, ac_avg_hz, ac_avg_hi, ac_avg_lo)
        ac == StepAcDriver(ac_driver_session, ac_answer)
        st == Accumulate(before, ac.read)
        dump == Dump(st, ac_last_dump, now, dump_delay)
    IN  /\ ac_call' = [state |-> ac_driver_session.state, op |-> ac_answer.op,
                       now |-> Some(now), voltage |-> Some(voltage),
                       half_cycle |-> ac_answer.half_cycle]
        /\ ac_values_read' = ac.read
        /\ ac_driver_session' = ac.session
        /\ st.samples <= MaxSamples
        /\ recorded' = Gained(before, st)
        /\ ac_samples' = dump.st.samples
        /\ ac_avg_hz' = dump.st.hz
        /\ ac_avg_hi' = dump.st.hi
        /\ ac_avg_lo' = dump.st.lo
        /\ ac_last_dump' = dump.last_dump
        /\ log' = dump.log
        /\ window' = IF dump.log # None THEN EmptyBag
                     ELSE IF ac.read # None THEN window (+) SetToBag({Unwrap(ac.read)})
                     ELSE window

\* Skip stepping the ac_driver session all the same, with a voltage of zero.
SkipStepsEstimator ==
    /\ ac_call' = [state |-> ac_driver_session.state, op |-> "Idle",
                   now |-> Some(clock'), voltage |-> Some(0), half_cycle |-> FALSE]
    /\ ac_values_read' = None
    /\ recorded' = None
    /\ log' = None
    /\ ac_driver_session' = [state |-> "Initializing"]
    /\ UNCHANGED << ac_samples, ac_avg_hz, ac_avg_hi, ac_avg_lo, ac_last_dump, window >>

\* An iteration that surfaced no voltage: the rest of the body is skipped.
Skip ==
    /\ ac_call' = NoCall
    /\ ac_values_read' = None
    /\ recorded' = None
    /\ log' = None
    /\ UNCHANGED << ac_driver_session, ac_samples, ac_avg_hz, ac_avg_hi, ac_avg_lo,
                    ac_last_dump, window >>

\* One iteration of the loop: the mcp3008 call gives `answer`, d passes on the
\* clock meanwhile, and voltage_read (when it is called) gives any of its
\* answers.
Iteration(answer, d) ==
    /\ pc = "loop"
    /\ clock + d <= MaxTime
    /\ clock' = clock + d
    /\ io' = answer
    /\ answer \in Mcp3008Answers(mcp3008_session, mcp3008_channel)
    /\ LET drv == StepMcp3008(mcp3008_session, mcp3008_channel, answer) IN
       /\ mcp3008_session' = drv.session
       /\ channel_voltage_read' = drv.read
       /\ pc' = IF drv.err THEN "exit" ELSE "loop"
       /\ result' = IF drv.err THEN ErrMcp3008 ELSE None
       /\ IF drv.read # None
          THEN \E ac_answer \in AcDriverAnswers(ac_driver_session) :
                  Consume(Unwrap(drv.read), ac_answer, clock')
          ELSE Skip
    /\ UNCHANGED << cli_args, mcp3008_channel, mcp3008_params, dump_delay >>

Ticks == 0 .. MaxTick

\* ------------------------------------------------------------ the actions
StartChannelNotInRange ==
    /\ ~ChannelMatch(carrier_channel).ok
    /\ Main(NotCreated)

StartSessionFailed ==
    /\ ChannelMatch(carrier_channel).ok
    /\ \E r \in Mcp3008SessionNew(Mcp3008Params(voltage_drain, voltage_ref)) :
           ~r.ok /\ Main(r)

StartSessionCreated ==
    /\ ChannelMatch(carrier_channel).ok
    /\ \E r \in Mcp3008SessionNew(Mcp3008Params(voltage_drain, voltage_ref)) :
           r.ok /\ Main(r)

Answer(op, res) == [op |-> op, res |-> res, channel |-> None, value |-> None]

\* The loop is running and its next mcp3008 call is `op`.
Calls(op) == pc = "loop" /\ Mcp3008Call(mcp3008_session) = op

ProbeIdle ==
    /\ Calls("probe")
    /\ \E d \in Ticks : Iteration(Answer("probe", "Idle"), d)

ProbeReady ==
    /\ Calls("probe")
    /\ \E d \in Ticks : Iteration(Answer("probe", "Ready"), d)

ProbeFailed ==
    /\ Calls("probe")
    /\ \E d \in Ticks : Iteration(Answer("probe", "Err"), d)

ProbeChannel ==
    /\ Calls("probe_channel")
    /\ \E d \in Ticks :
           Iteration([op |-> "probe_channel", res |-> "none",
                      channel |-> mcp3008_channel, value |-> None], d)

PollIdle ==
    /\ Calls("poll")
    /\ \E d \in Ticks : Iteration(Answer("poll", "Idle"), d)

PollFailed ==
    /\ Calls("poll")
    /\ \E d \in Ticks : Iteration(Answer("poll", "Err"), d)

PollDone ==
    /\ Calls("poll")
    /\ \E d \in Ticks, v \in Voltages :
           Iteration([op |-> "poll", res |-> "Done", channel |-> mcp3008_channel,
                      value |-> Some(v)], d)

PollDoneOtherChannel ==
    /\ Calls("poll")
    /\ \E d \in Ticks, v \in Voltages, c \in Channels :
           /\ Some(c) # mcp3008_channel
           /\ Iteration([op |-> "poll", res |-> "Done", channel |-> Some(c),
                         value |-> Some(v)], d)

Next ==
    \/ StartChannelNotInRange
    \/ StartSessionFailed
    \/ StartSessionCreated
    \/ ProbeIdle
    \/ ProbeReady
    \/ ProbeFailed
    \/ ProbeChannel
    \/ PollIdle
    \/ PollFailed
    \/ PollDone
    \/ PollDoneOtherChannel

Spec == Init /\ [][Next]_vars

\* The loop when the transport never fails, scheduled fairly: a probe of the
\* initializing session reports ready in the end, a ready session gets its
\* request, and a conversion being polled reports Done for the requested
\* channel in the end (all but finitely many Done answers are for it).
NextNoFailure ==
    \/ StartChannelNotInRange
    \/ StartSessionCreated
    \/ ProbeIdle
    \/ ProbeReady
    \/ ProbeChannel
    \/ PollIdle
    \/ PollDone
    \/ PollDoneOtherChannel

\* PollDone can be taken exactly when the loop is about to poll.
PollDoneEnabled == Calls("poll") <=> ENABLED <<PollDone>>_vars

\* SF_vars(PollDone), with ENABLED <<PollDone>>_vars written as the state
\* predicate it equals (PollDoneEnabled): either the loop is in the end never
\* about to poll, or a Done for the requested channel comes again and again.
PollDoneFair == (<>[]~Calls("poll")) \/ []<><<PollDone>>_vars

LiveSpec ==
    /\ Init
    /\ [][NextNoFailure]_vars
    /\ WF_vars(ProbeReady \/ ProbeChannel)
    /\ PollDoneFair

\* ================================================================ claims
InRange(c) == c \in 0 .. 7

IsErr(tag) == result # None /\ Unwrap(result).tag = tag

\* C1: a carrier channel outside 0..7 ends start-up with the channel error, the
\* mcp3008 session is never constructed and no mcp3008 call is ever made; a
\* channel in 0..7 never gives that error.
C1_ChannelOutOfRange ==
    /\ (~InRange(carrier_channel) /\ pc # "start") =>
          /\ pc = "exit"
          /\ result = Some([tag |-> "ChannelIsNotInRangeFrom0To7",
                            provided |-> Some(carrier_channel)])
    /\ ~InRange(carrier_channel) =>
          /\ mcp3008_session = NoSession
          /\ mcp3008_channel = None
          /\ io = NoIo
    /\ InRange(carrier_channel) => ~IsErr("ChannelIsNotInRangeFrom0To7")

C1_Witness == carrier_channel = 8 /\ pc = "exit"

Surfaced == channel_voltage_read # None

\* C2: a Done polled in Probing(c) leaves the session Ready; its value is
\* surfaced when its channel is c, and otherwise nothing is surfaced and the
\* ac_driver session, the accumulators and ac_last_dump stay as they were.  A
\* surfaced voltage is always the value of a Done for the requested channel.
C2_OnlyRequestedChannelSurfaced ==
    /\ [](Surfaced => /\ io.op = "poll" /\ io.res = "Done"
                      /\ io.channel = mcp3008_channel
                      /\ io.value = channel_voltage_read)
    /\ [][(pc = "loop" /\ mcp3008_session.state = "Probing" /\ io'.res = "Done") =>
            /\ mcp3008_session'.state = "Ready"
            /\ IF io'.channel = mcp3008_session.channel
               THEN channel_voltage_read' = io'.value
               ELSE /\ channel_voltage_read' = None
                    /\ UNCHANGED << ac_driver_session, stats, ac_last_dump, window >>
          ]_vars

C2_Witness ==
    /\ pc = "loop"
    /\ io.res = "Done"
    /\ io.channel # mcp3008_channel
    /\ mcp3008_session.state = "Ready"
    /\ ~Surfaced
    /\ ac_driver_session.state = "Estimated"
    /\ ac_samples > 0

\* C3: from any point of the loop at which no voltage is surfaced (the session
\* initializing, ready, or probing the configured channel c), a voltage of a
\* Done for c is surfaced in the end.
C3_ReadingEventually ==
    (pc = "loop" /\ ~Surfaced) ~> (Surfaced /\ io.channel = mcp3008_channel)

C3_Witness ==
    /\ pc = "loop"
    /\ Surfaced
    /\ io.channel = mcp3008_channel
    /\ carrier_channel = 7

Locked == ac_call.state = "Initializing" /\ ac_call.op = "CarrierDetected"

Updated == ac_call.state = "Estimated" /\ ac_call.op = "Idle"

\* C4: the accumulators gain an estimate in an iteration exactly when that
\* iteration's voltage_read detected the carrier or kept the session estimated;
\* what they gain is the values read, and the session is then estimated.  An
\* iteration that surfaced no voltage calls nothing and adds nothing.
C4_RecordIffLockedOrUpdated ==
    /\ (recorded # None) <=> (Locked \/ Updated)
    /\ recorded # None =>
          /\ recorded = ac_values_read
          /\ ac_driver_session.state = "Estimated"
    /\ ~Surfaced => (recorded = None /\ ac_call = NoCall)

C4_Witness == recorded # None /\ Updated /\ ac_samples = 2

\* C5: an iteration at whose time ac_last_dump is at least dump_delay back
\* dumps, whether or not it surfaced a voltage.
C5_DumpWheneverElapsed ==
    [][(pc = "loop" /\ pc' = "loop" /\ clock' - ac_last_dump >= dump_delay) =>
          log' # None]_vars

Dumped == log # None

AllZero == ac_samples = 0 /\ ac_avg_hz = 0 /\ ac_avg_hi = 0 /\ ac_avg_lo = 0

\* C6: after a dump ac_samples and the three sums are all zero and ac_last_dump
\* is the dump's now, and they stay zero while nothing has been read since; the
\* sums are zero whenever ac_samples is (none is reset without the others).
C6_DumpResetsAll ==
    /\ Dumped => /\ AllZero
                 /\ ac_last_dump = Unwrap(ac_call.now)
                 /\ ac_last_dump = clock
    /\ window = EmptyBag => AllZero
    /\ ac_samples = 0 => AllZero
    /\ ac_avg_hz = 0 => ac_samples = 0

C6_Witness == Dumped /\ Unwrap(log).kind = "avg" /\ clock > 0

RECURSIVE SumOver(_, _, _)
\* The sum of field f over the elements of the bag, those in set S.
SumOver(bag, S, f) ==
    IF S = {} THEN 0
    ELSE LET e == CHOOSE x \in S : TRUE
         IN  f[e] * CopiesIn(e, bag) + SumOver(bag, S \ {e}, f)

Total(bag, f) == SumOver(bag, BagToSet(bag), f)

Frequency == [e \in Estimates |-> e.frequency]

AmplitudeMax == [e \in Estimates |-> e.max]

AmplitudeMin == [e \in Estimates |-> e.min]

\* q is the arithmetic mean of n values whose sum is `sum`.
IsMean(q, sum, n) == Unwrap(q).den > 0 /\ Unwrap(q).num * n = sum * Unwrap(q).den

\* C7: a dump logs the no-samples notice exactly when nothing was read since
\* the dump before it (the iteration of the dump included); otherwise it logs,
\* for the frequency and the two amplitudes, the sum of exactly the values read
\* since then divided by their number.
C7_DumpLogsMeans ==
    [][(pc = "loop" /\ log' # None) =>
          LET w == IF ac_values_read' # None
                   THEN window (+) SetToBag({Unwrap(ac_values_read')})
                   ELSE window
              n == BagCardinality(w)
              lines == Unwrap(log')
          IN  /\ (lines.kind = "no samples collected yet") <=> (n = 0)
              /\ n > 0 =>
                   /\ lines.kind = "avg"
                   /\ IsMean(lines.hz, Total(w, Frequency), n)
                   /\ IsMean(lines.hi, Total(w, AmplitudeMax), n)
                   /\ IsMean(lines.lo, Total(w, AmplitudeMin), n)
      ]_vars

\* A dump of the frequencies 59.9, 60.0 and 60.1: the mean logged is 60.0.
C7_Witness ==
    /\ Dumped
    /\ Unwrap(log).kind = "avg"
    /\ Unwrap(log).hz = Some([num |-> 600, den |-> 1])
    /\ Unwrap(log).hi = Some([num |-> 8, den |-> 3])
    /\ Unwrap(log).lo = Some([num |-> 2, den |-> 3])

\* C8: an error answer of Session::new, probe or poll ends main in that step
\* with the error: the iteration surfaces nothing, calls no voltage_read, adds
\* nothing and dumps nothing, and once main has returned nothing changes again.
C8_ErrorEndsLoop ==
    /\ [](io.res = "Err" =>
            /\ pc = "exit"
            /\ result = ErrMcp3008
            /\ mcp3008_session = NoSession
            /\ ~Surfaced /\ ac_call = NoCall /\ recorded = None /\ ~Dumped)
    /\ [][/\ (pc = "loop" /\ io'.res = "Err") =>
                UNCHANGED << ac_driver_session, stats, ac_last_dump, window >>
          /\ pc = "exit" => UNCHANGED vars
         ]_vars

C8_Witness == io.op = "poll" /\ io.res = "Err" /\ pc = "exit" /\ ac_samples > 0

\* C9 as stated: a command line that gives an explicit reference voltage next
\* to the voltage drain (the drain is always given), or a reference of zero
\* volts, ends start-up with an error and the mcp3008 session is never
\* constructed.
C9_ReferenceRejected ==
    (voltage_ref # None /\ pc # "start") =>
        (pc = "exit" /\ result # None /\ mcp3008_session = NoSession)

\* C9 as amended: start-up refuses no reference-voltage configuration.  With a
\* channel in 0..7 it always builds the parameters from the two options as
\* given (EqualToVdd without a reference, Other with the given voltage) and
\* calls mcp3008::Session::new; the channel error is the only error it raises
\* itself, and only for a channel outside 0..7.
C9_ReferenceNeverRejected ==
    /\ (InRange(carrier_channel) /\ pc # "start") =>
          /\ io # NoIo
          /\ mcp3008_params =
                Some([voltage_drain |-> voltage_drain,
                      voltage_ref |-> IF voltage_ref = None
                                      THEN [tag |-> "EqualToVdd", voltage |-> None]
                                      ELSE [tag |-> "Other", voltage |-> voltage_ref]])
          /\ result # None => IsErr("Mcp3008")
    /\ IsErr("ChannelIsNotInRangeFrom0To7") => ~InRange(carrier_channel)

C9_Witness ==
    /\ voltage_ref = Some(0)
    /\ voltage_drain = "Positive5v"
    /\ pc = "loop"
    /\ Unwrap(mcp3008_params).voltage_ref.tag = "Other"
    /\ io.op = "poll"

\* C10: every iteration makes exactly the one mcp3008 call of the session's
\* state: probe when initializing, probe_channel (for the configured channel,
\* leaving the session probing) when ready, poll when probing.
C10_OneCallByState ==
    [][pc = "loop" =>
          /\ mcp3008_session.state = "Initializing" => io'.op = "probe"
          /\ mcp3008_session.state = "Ready" =>
                /\ io'.op = "probe_channel"
                /\ io'.channel = mcp3008_channel
                /\ mcp3008_session' = [state |-> "Probing", channel |-> mcp3008_channel]
          /\ mcp3008_session.state = "Probing" => io'.op = "poll"
      ]_vars

C10_Witness ==
    /\ pc = "loop"
    /\ io.op = "probe_channel"
    /\ mcp3008_session.state = "Probing"
    /\ ac_samples > 0

\* C13: an iteration that surfaced a voltage calls voltage_read once, on the
\* session as it was, with that voltage and the Instant::now() of that
\* iteration, and the session moves by that one call; an iteration that
\* surfaced none (probe, request, pending poll, Done for another channel)
\* calls nothing and leaves the ac_driver session as it was.
C13_ReadingConsumedOnce ==
    /\ [](Surfaced <=> ac_call # NoCall)
    /\ [](Surfaced => /\ ac_call.voltage = channel_voltage_read
                      /\ ac_call.voltage = io.value
                      /\ ac_call.now = Some(clock))
    /\ [][pc = "loop" =>
            IF channel_voltage_read' # None
            THEN /\ ac_call'.state = ac_driver_session.state
                 /\ ac_call'.now = Some(clock')
                 /\ ac_driver_session'.state =
                       CASE ac_call'.op = "Idle" -> ac_driver_session.state
                         [] ac_call'.op = "CarrierDetected" -> "Estimated"
                         [] ac_call'.op = "CarrierLost" -> "Initializing"
            ELSE /\ ac_call' = NoCall
                 /\ UNCHANGED ac_driver_session
                 /\ io'.op \in {"probe", "probe_channel", "poll"}
          ]_vars

C13_Witness ==
    /\ Surfaced
    /\ ac_call.state = "Estimated"
    /\ ac_call.voltage = Some(3)
    /\ ac_call.now = Some(MaxTime)
    /\ ac_driver_session.state = "Estimated"

\* C14: an iteration that starts with the session ready requests a conversion
\* and leaves the session probing the configured channel, so no two iterations
\* in a row start ready; every request of the run, and every session that is
\* probing, names the channel given on the command line, which is set once.
C14_RearmedAtOnce ==
    /\ [](io.op = "probe_channel" =>
            /\ io.channel = Some(carrier_channel)
            /\ mcp3008_session = [state |-> "Probing", channel |-> Some(carrier_channel)])
    /\ [](mcp3008_session.state = "Probing" =>
            mcp3008_session.channel = Some(carrier_channel))
    /\ [](pc = "loop" => mcp3008_channel = Some(carrier_channel))
    /\ [][(pc = "loop" /\ mcp3008_session.state = "Ready") =>
            /\ io'.op = "probe_channel"
            /\ mcp3008_session'.state = "Probing"
            /\ mcp3008_session'.state # "Ready"
            /\ pc' = "loop"
          ]_vars
    /\ [][pc = "loop" => UNCHANGED << mcp3008_channel, carrier_channel >>]_vars

\* The request that follows a consumed reading, on channel 5.
C14_Witness ==
    /\ io.op = "probe_channel"
    /\ carrier_channel = 5
    /\ mcp3008_session = [state |-> "Probing", channel |-> Some(5)]
    /\ ac_driver_session.state = "Estimated"

\* The changes of state of the mcp3008 session an iteration may make.
DriverTransitions ==
    { << "Initializing", "Initializing" >>, << "Initializing", "Ready" >>,
      << "Ready", "Probing" >>, << "Probing", "Probing" >>, << "Probing", "Ready" >> }

PastInitializing == mcp3008_session.state \in {"Ready", "Probing"}

\* C15: while the loop runs the mcp3008 session changes state only along
\* Initializing->Initializing, Initializing->Ready, Ready->Probing,
\* Probing->Probing and Probing->Ready (an error answer ends main instead); a
\* session that is ready or probing is never initializing again; the session
\* starts initializing and leaves that state only by a probe that answered
\* Ready, and a request or a poll is only made on a session past it.
C15_DriverTransitions ==
    /\ [][(pc = "loop" /\ pc' = "loop") =>
            << mcp3008_session.state, mcp3008_session'.state >> \in DriverTransitions
          ]_vars
    /\ [][PastInitializing => mcp3008_session'.state # "Initializing"]_vars
    /\ [][(pc = "start" /\ pc' = "loop") => mcp3008_session'.state = "Initializing"]_vars
    /\ [][(~PastInitializing /\ PastInitializing') =>
            (io'.op = "probe" /\ io'.res = "Ready")]_vars
    /\ [][io'.op \in {"probe_channel", "poll"} => PastInitializing]_vars
    /\ [](io.op \in {"probe_channel", "poll"} => mcp3008_session.state # "Initializing")

C15_Witness ==
    /\ pc = "loop"
    /\ io.op = "poll"
    /\ io.res = "Done"
    /\ io.channel # mcp3008_channel
    /\ mcp3008_session.state = "Ready"
    /\ clock = MaxTime

Pending == io.op \in {"probe", "poll"} /\ io.res = "Idle"

\* C16: a probe that answers InitializingOp::Idle and a poll that answers
\* ProbingOp::Idle are no errors: main goes on, the mcp3008 session is the one
\* it was (initializing, or probing the same channel), nothing is surfaced,
\* and the ac_driver session, the accumulators and ac_last_dump are as before,
\* however long ago the last dump was.
C16_PendingChangesNothing ==
    /\ [](Pending => /\ pc = "loop"
                     /\ result = None
                     /\ ~Surfaced /\ ~Dumped /\ recorded = None /\ ac_call = NoCall
                     /\ mcp3008_session.state =
                           (IF io.op = "probe" THEN "Initializing" ELSE "Probing"))
    /\ [][(pc = "loop" /\ Pending') =>
            UNCHANGED << mcp3008_session, ac_driver_session, stats, ac_last_dump,
                         window >>
          ]_vars

\* A pending poll after the dump delay has passed, with estimates waiting.
C16_Witness ==
    /\ Pending
    /\ io.op = "poll"
    /\ mcp3008_session = [state |-> "Probing", channel |-> mcp3008_channel]
    /\ ac_driver_session.state = "Estimated"
    /\ ac_samples > 0
    /\ clock - ac_last_dump >= dump_delay

\* C17: in an iteration that both reads values and dumps, the values are
\* added first: the dump logs averages (never the no-samples notice) over the
\* accumulators as they were plus the values just read, and the accumulators
\* are all zero after it, so the next window starts without them.
C17_RecordBeforeDump ==
    [][(pc = "loop" /\ log' # None /\ recorded' # None) =>
          LET lines == Unwrap(log')
              read == Unwrap(recorded')
              n == ac_samples + 1
          IN  /\ recorded' = ac_values_read'
              /\ lines.kind = "avg"
              /\ IsMean(lines.hz, ac_avg_hz + read.frequency, n)
              /\ IsMean(lines.hi, ac_avg_hi + read.max, n)
              /\ IsMean(lines.lo, ac_avg_lo + read.min, n)
              /\ ac_samples' = 0 /\ ac_avg_hz' = 0 /\ ac_avg_hi' = 0 /\ ac_avg_lo' = 0
              /\ window' = EmptyBag
      ]_vars

\* A dump whose only values are those read in its own iteration: 60.1 Hz,
\* 2 V and 1 V are the averages (with --dump-stats-delay 0 every reading dumps).
C17_Witness ==
    /\ Dumped
    /\ recorded = Some([frequency |-> 601, max |-> 2, min |-> 1])
    /\ dump_delay = 0
    /\ Unwrap(log).hz = Some([num |-> 601, den |-> 1])
    /\ ac_samples = 0

\* C18: in every state ac_samples is the number of values added since the
\* latest dump (or since start-up) and each sum is the sum of its field over
\* exactly those values, so a count of zero comes with three sums of zero;
\* the values counted are those of the iterations that read some and did not
\* dump.
C18_SumsMatchRecords ==
    /\ [](/\ ac_samples = BagCardinality(window)
          /\ ac_avg_hz = Total(window, Frequency)
          /\ ac_avg_hi = Total(window, AmplitudeMax)
          /\ ac_avg_lo = Total(window, AmplitudeMin)
          /\ ac_samples = 0 => (ac_avg_hz = 0 /\ ac_avg_hi = 0 /\ ac_avg_lo = 0))
    /\ [][pc = "loop" =>
            window' = IF log' # None THEN EmptyBag
                      ELSE IF recorded' # None
                           THEN window (+) SetToBag({Unwrap(recorded')})
                           ELSE window
          ]_vars

\* Three values accumulated, two of them the same.
C18_Witness ==
    /\ ac_samples = 3
    /\ CopiesIn([frequency |-> 599, max |-> 3, min |-> 1], window) = 2
    /\ CopiesIn([frequency |-> 601, max |-> 2, min |-> 1], window) = 1
    /\ ac_avg_hz = 1799 /\ ac_avg_hi = 8 /\ ac_avg_lo = 3

\* C19: a dump is made at least dump_delay after the time ac_last_dump held
\* (the dump before it, or start-up for the first), and sets ac_last_dump to
\* its own now; ac_last_dump changes only so, never decreases and is never
\* later than the clock; at start-up it is the clock, and the delay is the
\* one given on the command line for the whole run.
C19_DumpsApartByDelay ==
    /\ [](pc = "loop" => /\ ac_last_dump <= clock
                         /\ dump_delay = dump_stats_delay)
    /\ [](Dumped => ac_last_dump = clock)
    /\ [][(pc = "start" /\ pc' = "loop") => ac_last_dump' = clock']_vars
    /\ [][pc = "loop" =>
            /\ ac_last_dump' >= ac_last_dump
            /\ dump_delay' = dump_delay
            /\ IF log' # None
               THEN /\ ac_last_dump' = clock'
                    /\ ac_last_dump' - ac_last_dump >= dump_delay
               ELSE ac_last_dump' = ac_last_dump
          ]_vars

\* A dump at time two with a delay of two: the first one, a full delay after
\* start-up.
C19_Witness ==
    /\ Dumped
    /\ dump_delay = 2
    /\ ac_last_dump = 2
    /\ Unwrap(log).kind = "avg"

\* C20 as stated: of the samples read by an estimated session only those that
\* complete a half-cycle add values to the accumulators; one that completes
\* none adds nothing.
C20_RecordOnlyOnHalfCycle ==
    (ac_call.state = "Estimated" /\ ~ac_call.half_cycle) => recorded = None

\* C20 as amended: every sample read by an estimated session adds the
\* session's values to the accumulators unless it loses the carrier, whether
\* or not it completed a half-cycle; an estimated session has no answer that
\* keeps it estimated and adds nothing.  The count so grows by one with every
\* sample that leaves the session estimated (the detecting one included) and
\* with no other.
C20_RecordEverySampleWhileEstimated ==
    /\ [](ac_call.state = "Estimated" =>
            /\ ac_call.op \in {"Idle", "CarrierLost"}
            /\ ac_call.op = "Idle" =>
                  (recorded # None /\ ac_driver_session.state = "Estimated")
            /\ ac_call.op = "CarrierLost" =>
                  (recorded = None /\ ac_driver_session.state = "Initializing"))
    /\ [][(pc = "loop" /\ channel_voltage_read' # None) =>
            LET kept == ac_driver_session'.state = "Estimated" IN
            /\ kept <=> recorded' # None
            /\ log' = None =>
                  ac_samples' = ac_samples + (IF kept THEN 1 ELSE 0)
            /\ log' # None =>
                  (Unwrap(log').kind = "avg" <=> (kept \/ ac_samples > 0))
          ]_vars
    /\ [][(pc = "loop" /\ channel_voltage_read' = None) =>
            ac_samples' = ac_samples]_vars

\* Three samples counted in one window, the latest read by the estimated
\* session and completing no half-cycle.
C20_Witness ==
    /\ ac_call.state = "Estimated"
    /\ ac_call.op = "Idle"
    /\ ~ac_call.half_cycle
    /\ recorded # None
    /\ ~Dumped
    /\ ac_samples = 3

====
